---- MODULE Spec2Model ----
(***************************************************************************)
(* Finance tracker: the keyword classifier (classifier.py, config.py), the *)
(* transaction ledger with its queries (database.py), the analytics page   *)
(* (analytics.py), the login session (auth.py) and the transaction and     *)
(* import pages (ui.py).                                                   *)
(*                                                                         *)
(* Python values are tagged records [tag, s, n]: tag is the Python type,   *)
(* s the text of a str, n the number of an int (user ids) or the amount in *)
(* whole cents of an int/float amount.  The float NaN has its own tag      *)
(* because every ordering comparison with it is False.                     *)
(***************************************************************************)
EXTENDS Integers, Sequences, FiniteSets, TLC

VARIABLES users, ledger, nextId, last, session, legacy

vars == <<users, ledger, nextId, last, session, legacy>>

(***************************************************************************)
(* Bounds of the model.                                                    *)
(***************************************************************************)
MaxDescTokens == 2
SeedRows == 4
MaxAdded == 1
MaxUsers == 2
MaxMonthRows == 3

(***************************************************************************)
(* Python values.                                                          *)
(***************************************************************************)
None == [tag |-> "None", s |-> "", n |-> 0]
Str(x) == [tag |-> "str", s |-> x, n |-> 0]
PyInt(k) == [tag |-> "int", s |-> "", n |-> k]
Money(c) == [tag |-> (IF c % 100 = 0 THEN "int" ELSE "float"), s |-> "", n |-> c]
NaN == [tag |-> "nan", s |-> "", n |-> 0]

\* isinstance(v, str) / isinstance(v, int) / isinstance(v, (int, float))
IsStr(v) == v.tag = "str"
IsInt(v) == v.tag = "int"
IsNumber(v) == v.tag \in {"int", "float", "nan"}

\* Python truth value of v (bool(v)): NaN is a non-zero float, hence true.
Truthy(v) ==
    CASE v.tag = "None" -> FALSE
      [] v.tag = "str" -> v.s # ""
      [] v.tag = "nan" -> TRUE
      [] OTHER -> v.n # 0

\* v <= c, v > c, v < c for a number v and a constant c in cents.
PyLe(v, c) == v.tag # "nan" /\ v.n <= c
PyGt(v, c) == v.tag # "nan" /\ v.n > c
PyLt(v, c) == v.tag # "nan" /\ v.n < c

\* st.session_state of a new browser session: no key of the login is set,
\* no transaction is selected (0 stands for None) and no form is open.
NoSession ==
    [keys |-> {}, username |-> "", user_id |-> 0,
     selected_transaction |-> 0, edit_mode |-> FALSE, delete_confirm |-> FALSE]

\* The outcome of a call: the value returned, or the exception raised with
\* its message. A returned text (or "None") is val, a returned frame is its
\* sequence of rows, a returned summary is the record of its three keys.
Ok(x) == [kind |-> "ok", val |-> x]
OkFrame(df) == [kind |-> "ok", rows |-> df]
OkSummary(total, breakdown, trend) ==
    [kind |-> "ok", total_spending |-> total, category_breakdown |-> breakdown,
     monthly_trend |-> trend]
Raise(exc, msg) == [kind |-> exc, val |-> msg]

(***************************************************************************)
(* Text: str.lower, str.strip, the substring test, text comparison.   *)
(***************************************************************************)
\* The printable ASCII characters in code order, without the double quote
\* (34), the backslash (92) and the grave accent (96), which no text of the
\* model contains.
ASCII_32 == " !"
ASCII_35 == "#$%&'()*+,-./0123456789:;<=>?@ABCDEFGHIJKLMNOPQRSTUVWXYZ["
ASCII_93 == "]^_"
ASCII_97 == "abcdefghijklmnopqrstuvwxyz{|}~"

Char(str, i) == SubSeq(str, i, i)

IndexIn(str, c) == CHOOSE i \in 1..Len(str) : Char(str, i) = c
In(str, c) == \E i \in 1..Len(str) : Char(str, i) = c

\* ord(c) and chr(k)
OrdTable ==
    [k \in 32..126 \ {34, 92, 96} |->
        IF k < 34 THEN Char(ASCII_32, k - 31)
        ELSE IF k < 92 THEN Char(ASCII_35, k - 34)
        ELSE IF k < 96 THEN Char(ASCII_93, k - 92)
        ELSE Char(ASCII_97, k - 96)]

Chr(k) == OrdTable[k]

\* The inverse table, from a character to its code.
ChrTable == [c \in {OrdTable[k] : k \in DOMAIN OrdTable} |->
                CHOOSE k \in DOMAIN OrdTable : OrdTable[k] = c]

Ord(c) == ChrTable[c]

UPPERCASE == "ABCDEFGHIJKLMNOPQRSTUVWXYZ"
LOWERCASE == "abcdefghijklmnopqrstuvwxyz"

LowerChar(c) == IF In(UPPERCASE, c) THEN Char(LOWERCASE, IndexIn(UPPERCASE, c)) ELSE c

RECURSIVE Lower(_)
Lower(str) ==
    IF str = "" THEN ""
    ELSE LowerChar(Char(str, 1)) \o Lower(SubSeq(str, 2, Len(str)))

IsSpace(c) == c = " "

RECURSIVE LStrip(_)
LStrip(str) ==
    IF str # "" /\ IsSpace(Char(str, 1))
    THEN LStrip(SubSeq(str, 2, Len(str)))
    ELSE str

RECURSIVE RStrip(_)
RStrip(str) ==
    IF str # "" /\ IsSpace(Char(str, Len(str)))
    THEN RStrip(SubSeq(str, 1, Len(str) - 1))
    ELSE str

Strip(str) == RStrip(LStrip(str))

\* keyword in desc
Contains(str, k) ==
    \E i \in 1..(Len(str) - Len(k) + 1) : SubSeq(str, i, i + Len(k) - 1) = k

(***************************************************************************)
(* config.py: the rule set, in its insertion order.                        *)
(***************************************************************************)
CATEGORIES == <<
    [name |-> "food", keywords |-> {"restaurant", "groceries", "cafe", "food", "eat", "dining", "supermarket", "coffee"}],
    [name |-> "transport", keywords |-> {"uber", "taxi", "bus", "train", "fuel", "petrol", "metro", "transport", "gas"}],
    [name |-> "entertainment", keywords |-> {"movie", "netflix", "concert", "game", "entertainment", "cinema"}],
    [name |-> "shopping", keywords |-> {"mall", "clothes", "amazon", "shopping", "store", "fashion"}],
    [name |-> "bills", keywords |-> {"electricity", "water", "internet", "bill", "utility", "rent", "mortgage"}],
    [name |-> "healthcare", keywords |-> {"hospital", "doctor", "pharmacy", "medical", "health"}],
    [name |-> "education", keywords |-> {"course", "book", "tuition", "school", "university"}],
    [name |-> "miscellaneous", keywords |-> {"misc", "other", "miscellaneous", "gift", "donation"}] >>

(***************************************************************************)
(* classifier.py: ExpenseClassifier.categorize                             *)
(***************************************************************************)
\* any(keyword in desc for keyword in keywords)
AnyKeyword(desc, keywords) == \E k \in keywords : Contains(desc, k)

\* The loop over self.categories.items() from position i on: the first
\* category with a matching keyword, or "" when the loop falls through.
\* A loop that keeps the last matching category instead of returning the first.
RuleMatchLast(desc, i) ==
    LET hits == {j \in i..Len(CATEGORIES) : AnyKeyword(desc, CATEGORIES[j].keywords)} IN
    IF hits = {} THEN ""
    ELSE CATEGORIES[CHOOSE j \in hits : \A h \in hits : h <= j].name

RECURSIVE RuleMatch(_, _)
RuleMatch(desc, i) ==
    IF i > Len(CATEGORIES) THEN ""
    ELSE IF AnyKeyword(desc, CATEGORIES[i].keywords) THEN CATEGORIES[i].name
    ELSE RuleMatch(desc, i + 1)

\* A fallback whose thresholds are inclusive.
AmountFallbackInclusive(amount) ==
    IF ~PyLt(amount, 30000) /\ amount.tag # "nan" THEN "shopping"
    ELSE IF PyLe(amount, 3000) THEN "miscellaneous"
    ELSE "general"

AmountFallback(amount) ==
    IF PyGt(amount, 30000) THEN "shopping"
    ELSE IF PyLt(amount, 3000) THEN "miscellaneous"
    ELSE "general"

categorize(description, amount) ==
    IF description.tag = "None" \/ ~IsStr(description)
    THEN Raise("ValueError", "Description must be a non-empty string")
    ELSE IF amount.tag = "None" \/ ~IsNumber(amount)
    THEN Raise("ValueError", "Amount must be a number")
    ELSE IF PyLe(amount, 0)
    THEN Raise("ValueError", "Amount must be positive")
    ELSE LET desc == Strip(Lower(description.s)) IN
         IF desc = ""
         THEN Raise("ValueError", "Description cannot be empty after stripping whitespace")
         ELSE IF RuleMatch(desc, 1) # ""
         THEN Ok(RuleMatch(desc, 1))
         ELSE Ok(AmountFallback(amount))

(***************************************************************************)
(* datetime.strptime(date, '%Y-%m-%d') and the comparison of stored text.  *)
(***************************************************************************)
DIGITS == "0123456789"

IsDigit(c) == Ord("0") <= Ord(c) /\ Ord(c) <= Ord("9")
AllDigits(str) == \A i \in 1..Len(str) : IsDigit(Char(str, i))

RECURSIVE ToNat(_)
ToNat(str) ==
    IF str = "" THEN 0
    ELSE 10 * ToNat(SubSeq(str, 1, Len(str) - 1)) + (Ord(Char(str, Len(str))) - Ord("0"))

\* %m is 1[0-2]|0[1-9]|[1-9] and %d is 3[01]|[12]\d|0[1-9]|[1-9]| [1-9]:
\* one or two digits, so a month or a day need not be zero-padded.
MatchMonth(str) ==
    /\ Len(str) \in {1, 2}
    /\ AllDigits(str)
    /\ ToNat(str) \in 1..12

MatchDay(str) ==
    \/ /\ Len(str) \in {1, 2}
       /\ AllDigits(str)
       /\ ToNat(str) \in 1..31
    \/ /\ Len(str) = 2
       /\ Char(str, 1) = " "
       /\ IsDigit(Char(str, 2))
       /\ ToNat(SubSeq(str, 2, 2)) \in 1..9

IsLeap(y) == (y % 4 = 0 /\ y % 100 # 0) \/ y % 400 = 0

DaysInMonth(y, m) ==
    IF m = 2 THEN (IF IsLeap(y) THEN 29 ELSE 28)
    ELSE IF m \in {4, 6, 9, 11} THEN 30
    ELSE 31

\* The positions of the second '-' for which the text matches the format.
DateSplits(str) ==
    {p \in {7, 8} :
        /\ p < Len(str)
        /\ AllDigits(SubSeq(str, 1, 4))
        /\ Char(str, 5) = "-"
        /\ Char(str, p) = "-"
        /\ MatchMonth(SubSeq(str, 6, p - 1))
        /\ MatchDay(SubSeq(str, p + 1, Len(str)))}

\* The outcome of strptime: kind is "ok", "ValueError" or "TypeError".
strptime(date) ==
    IF ~IsStr(date)
    THEN [kind |-> "TypeError", val |-> "strptime() argument 1 must be str", y |-> 0, m |-> 0, d |-> 0]
    ELSE LET splits == DateSplits(date.s) IN
         IF splits = {}
    THEN [kind |-> "ValueError", val |-> "time data does not match format", y |-> 0, m |-> 0, d |-> 0]
    ELSE LET p == CHOOSE q \in splits : TRUE
             y == ToNat(SubSeq(date.s, 1, 4))
             m == ToNat(SubSeq(date.s, 6, p - 1))
             d == ToNat(Strip(SubSeq(date.s, p + 1, Len(date.s))))
         IN IF y < 1 \/ d > DaysInMonth(y, m)
            THEN [kind |-> "ValueError", val |-> "day is out of range for month", y |-> 0, m |-> 0, d |-> 0]
            ELSE [kind |-> "ok", val |-> "", y |-> y, m |-> m, d |-> d]

\* a < b for two texts, byte by byte as the store compares TEXT values.
RECURSIVE StrLtFrom(_, _, _)
StrLtFrom(a, b, i) ==
    IF i > Len(a) THEN i <= Len(b)
    ELSE IF i > Len(b) THEN FALSE
    ELSE IF Char(a, i) = Char(b, i) THEN StrLtFrom(a, b, i + 1)
    ELSE Ord(Char(a, i)) < Ord(Char(b, i))

StrLt(a, b) == StrLtFrom(a, b, 1)

StrLe(a, b) == a = b \/ StrLt(a, b)

(***************************************************************************)
(* database.py: the store.  A database is a record [users, ledger, nextId]:*)
(* users is the users table in id order (the id of a user is its          *)
(* position), ledger the transactions table in rowid order, nextId the     *)
(* next AUTOINCREMENT id of a transaction.                                 *)
(***************************************************************************)
DB(u, l, n) == [users |-> u, ledger |-> l, nextId |-> n]

\* The outcome of a mutating call: the result and the database it leaves.
Done(res, db) == [res |-> res, db |-> db]

UserIds(db) == 1..Len(db.users)

\* An INSERT under a schema that declares no reference to users.
InsertErrorNoForeignKey(db, user_id, amount) ==
    IF amount.tag = "nan" THEN "NOT NULL constraint failed: transactions.amount" ELSE ""

\* The INSERT of add_transaction under the schema of _create_tables:
\* user_id REFERENCES users(id) with foreign keys on, amount NOT NULL (the
\* store binds a NaN as NULL).  An empty text is the error of the store.
InsertError(db, user_id, amount) ==
    IF amount.tag = "nan" THEN "NOT NULL constraint failed: transactions.amount"
    ELSE IF user_id.n \notin UserIds(db) THEN "FOREIGN KEY constraint failed"
    ELSE ""

\* A resolution that asks the classifier whatever the argument is.
ResolveCategoryAlways(description, amount, category) == categorize(description, amount)

\* The category add_transaction stores: the classifier is asked only when
\* the argument is falsy.
ResolveCategory(description, amount, category) ==
    IF ~Truthy(category) THEN categorize(description, amount) ELSE Ok(category.s)

\* An amount check that lets zero through.
AmountRejectedNegativeOnly(amount) == ~IsNumber(amount) \/ PyLt(amount, 0)

\* not isinstance(amount, (int, float)) or amount <= 0
AmountRejected(amount) == ~IsNumber(amount) \/ PyLe(amount, 0)

\* A handler that lets the classifier's error through as it is.
ClassificationErrorUnwrapped(e) == e

\* except Exception as e: raise ValueError(f"Failed to categorize transaction: {e}")
ClassificationError(e) == Raise("ValueError", "Failed to categorize transaction: " \o e.val)

\* except sqlite3.Error as e: raise RuntimeError(f"Failed to add transaction: {e}")
PersistenceError(msg) == Raise("RuntimeError", "Failed to add transaction: " \o msg)

add_transaction(db, user_id, description, amount, date, type, category, receipt_image) ==
    IF ~IsInt(user_id) \/ user_id.n <= 0
    THEN Done(Raise("ValueError", "user_id must be a positive integer"), db)
    ELSE IF ~Truthy(description) \/ ~IsStr(description)
    THEN Done(Raise("ValueError", "Description must be a non-empty string"), db)
    ELSE IF AmountRejected(amount)
    THEN Done(Raise("ValueError", "Amount must be a positive number"), db)
    ELSE IF strptime(date).kind = "TypeError"
    THEN Done(Raise("TypeError", strptime(date).val), db)
    ELSE IF strptime(date).kind = "ValueError"
    THEN Done(Raise("ValueError", "Date must be in YYYY-MM-DD format"), db)
    ELSE IF type \notin {Str("income"), Str("expense")}
    THEN Done(Raise("ValueError", "Type must be 'income' or 'expense'"), db)
    ELSE IF Truthy(category) /\ ~IsStr(category)
    THEN Done(Raise("ValueError", "Category must be a string"), db)
    ELSE LET cat == ResolveCategory(description, amount, category) IN
         IF cat.kind # "ok"
         THEN Done(ClassificationError(cat), db)
         ELSE IF InsertError(db, user_id, amount) # ""
         THEN Done(PersistenceError(InsertError(db, user_id, amount)), db)
         ELSE Done(Ok("None"),
                   [db EXCEPT !.ledger = Append(@,
                                  [id |-> db.nextId,
                                   user_id |-> user_id.n,
                                   description |-> description.s,
                                   amount |-> amount.n,
                                   category |-> cat.val,
                                   date |-> date.s,
                                   type |-> type.s,
                                   receipt_image |-> receipt_image]),
                               !.nextId = @ + 1])

\* config.py SAMPLE_DATA: the first rows of the list, amounts in cents.
SAMPLE_DATA == <<
    <<"Groceries at Walmart", 8550, "2025-09-15", "expense", "food">>,
    <<"Uber ride to airport", 4500, "2025-09-16", "expense", "transport">>,
    <<"Netflix subscription", 1599, "2025-09-17", "expense", "entertainment">>,
    <<"Salary deposit", 250000, "2025-09-15", "income", "general">>,
    <<"Amazon shopping", 12075, "2025-09-18", "expense", "shopping">>,
    <<"Electricity bill", 8500, "2025-08-19", "expense", "bills">> >>

\* bcrypt.hashpw(password, salt), the salt left out.
HashPw(password) == "bcrypt:" \o password

\* The loop of _create_tables over SAMPLE_DATA from row i on.
RECURSIVE LoadSamples(_, _, _)
LoadSamples(db, demo_user_id, i) ==
    IF i > SeedRows THEN db
    ELSE LoadSamples(
            add_transaction(db, PyInt(demo_user_id),
                            Str(SAMPLE_DATA[i][1]), Money(SAMPLE_DATA[i][2]),
                            Str(SAMPLE_DATA[i][3]), Str(SAMPLE_DATA[i][4]),
                            Str(SAMPLE_DATA[i][5]), None).db,
            demo_user_id, i + 1)

\* A construction that seeds the demo user and the sample rows every time.
CreateTablesSeedingAlways(db) ==
    LoadSamples([db EXCEPT !.users = <<[username |-> "demo", password_hash |-> HashPw("password")]>>],
                1, 1)

\* _create_tables: the tables exist afterwards; the demo user and the
\* sample rows are inserted when the users table is empty.
CreateTables(db) ==
    IF Len(db.users) = 0
    THEN LoadSamples([db EXCEPT !.users = <<[username |-> "demo", password_hash |-> HashPw("password")]>>],
                     1, 1)
    ELSE db

\* FinanceDatabase() on a fresh file.
NewDatabase == CreateTables(DB(<<>>, <<>>, 1))

create_user(db, username, password_hash) ==
    IF ~Truthy(username) \/ ~IsStr(username)
    THEN Done(Raise("ValueError", "Username must be a non-empty string"), db)
    ELSE IF ~Truthy(password_hash) \/ ~IsStr(password_hash)
    THEN Done(Raise("ValueError", "Password hash must be a non-empty string"), db)
    ELSE IF \E i \in UserIds(db) : db.users[i].username = username.s
    THEN Done(Raise("ValueError", "Username already exists"), db)
    ELSE Done(Ok("None"),
              [db EXCEPT !.users = Append(@, [username |-> username.s,
                                              password_hash |-> password_hash.s])])

(***************************************************************************)
(* database.py: get_transactions                                           *)
(***************************************************************************)
\* ORDER BY date DESC: the rows in descending order of the date text, rows
\* of equal date in rowid order.
RECURSIVE InsertByDateDesc(_, _)
InsertByDateDesc(sorted, row) ==
    IF sorted = <<>> THEN <<row>>
    ELSE IF StrLt(Head(sorted).date, row.date) THEN <<row>> \o sorted
    ELSE <<Head(sorted)>> \o InsertByDateDesc(Tail(sorted), row)

RECURSIVE OrderByDateDesc(_)
OrderByDateDesc(rows) ==
    IF rows = <<>> THEN <<>>
    ELSE InsertByDateDesc(OrderByDateDesc(SubSeq(rows, 1, Len(rows) - 1)), rows[Len(rows)])

\* A WHERE clause that does not name the owner.
SelectedAnyOwner(row, user_id, start_date, end_date, category, type) ==
    /\ Truthy(start_date) => StrLe(start_date.s, row.date)
    /\ Truthy(end_date) => StrLe(row.date, end_date.s)
    /\ Truthy(category) => row.category = category.s
    /\ Truthy(type) => row.type = type.s

\* The WHERE clause: user_id = ? and one more condition per truthy filter.
Selected(row, user_id, start_date, end_date, category, type) ==
    /\ row.user_id = user_id.n
    /\ Truthy(start_date) => StrLe(start_date.s, row.date)
    /\ Truthy(end_date) => StrLe(row.date, end_date.s)
    /\ Truthy(category) => row.category = category.s
    /\ Truthy(type) => row.type = type.s

get_transactions(db, user_id, start_date, end_date, category, type) ==
    IF ~IsInt(user_id) \/ user_id.n <= 0
    THEN Raise("ValueError", "user_id must be a positive integer")
    ELSE LET start == strptime(start_date)
             end == strptime(end_date)
    IN   IF Truthy(start_date) /\ start.kind = "TypeError"
    THEN Raise("TypeError", start.val)
    ELSE IF Truthy(start_date) /\ start.kind = "ValueError"
    THEN Raise("ValueError", "Start date must be in YYYY-MM-DD format")
    ELSE IF Truthy(end_date) /\ end.kind = "TypeError"
    THEN Raise("TypeError", end.val)
    ELSE IF Truthy(end_date) /\ end.kind = "ValueError"
    THEN Raise("ValueError", "End date must be in YYYY-MM-DD format")
    ELSE IF Truthy(category) /\ ~IsStr(category)
    THEN Raise("ValueError", "Category must be a string")
    ELSE IF Truthy(type) /\ type \notin {Str("income"), Str("expense")}
    THEN Raise("ValueError", "Type must be 'income' or 'expense'")
    ELSE OkFrame(OrderByDateDesc(
                SelectSeq(db.ledger,
                          LAMBDA row : Selected(row, user_id, start_date, end_date, category, type))))

(***************************************************************************)
(* database.py: get_spending_insights                                      *)
(***************************************************************************)
\* datetime.now() of the runs, and today.replace(day=1), as strftime
\* '%Y-%m-%d' prints them.
Today == "2025-09-20"
MonthStart == SubSeq(Today, 1, 8) \o "01"

\* The range the query is made with: both bounds are replaced by the
\* current month as soon as one of them is falsy.
InsightRange(start_date, end_date) ==
    IF ~Truthy(start_date) \/ ~Truthy(end_date)
    THEN [start_date |-> Str(MonthStart), end_date |-> Str(Today)]
    ELSE [start_date |-> start_date, end_date |-> end_date]

RECURSIVE SumAmounts(_)
SumAmounts(rows) ==
    IF rows = <<>> THEN 0 ELSE Head(rows).amount + SumAmounts(Tail(rows))

\* The sum of a sequence of numbers.
RECURSIVE SumSeq(_)
SumSeq(q) == IF q = <<>> THEN 0 ELSE Head(q) + SumSeq(Tail(q))

\* The elements of a set of texts in ascending order.
RECURSIVE SortedTexts(_)
SortedTexts(S) ==
    IF S = {} THEN <<>>
    ELSE LET least == CHOOSE x \in S : \A y \in S : StrLe(x, y)
         IN <<least>> \o SortedTexts(S \ {least})

\* df.groupby('category').agg(sum, count): one row per category, in the
\* order of the group keys.
RECURSIVE BreakdownRows(_, _)
BreakdownRows(df, keys) ==
    IF keys = <<>> THEN <<>>
    ELSE LET group == SelectSeq(df, LAMBDA row : row.category = Head(keys)) IN
         <<[category |-> Head(keys), total |-> SumAmounts(group), count |-> Len(group)]>>
             \o BreakdownRows(df, Tail(keys))

\* A breakdown without grouping: one row per transaction.
CategoryBreakdownPerRow(df) ==
    [i \in 1..Len(df) |-> [category |-> df[i].category, total |-> df[i].amount, count |-> 1]]

CategoryBreakdown(df) ==
    BreakdownRows(df, SortedTexts({df[i].category : i \in 1..Len(df)}))

\* str(Period('M')): the year on four digits, the month on two.
RECURSIVE ZeroPad(_, _)
ZeroPad(str, width) == IF Len(str) >= width THEN str ELSE ZeroPad("0" \o str, width)

RECURSIVE NatText(_)
NatText(k) ==
    IF k < 10 THEN Char(DIGITS, k + 1)
    ELSE NatText(k \div 10) \o Char(DIGITS, (k % 10) + 1)

\* A month label cut from the date text as it is stored.
MonthOfTextPrefix(date) == SubSeq(date, 1, 7)

MonthOf(date) ==
    LET t == strptime(Str(date)) IN ZeroPad(NatText(t.y), 4) \o "-" \o ZeroPad(NatText(t.m), 2)

\* df['month'] = pd.to_datetime(df['date']).dt.to_period('M'): the frame
\* with the month of each row.
RECURSIVE WithMonth(_)
WithMonth(df) ==
    IF df = <<>> THEN <<>>
    ELSE <<[month |-> MonthOf(Head(df).date), amount |-> Head(df).amount]>> \o WithMonth(Tail(df))

\* df.groupby('month')['amount'].sum(): one row per month, in month order.
RECURSIVE TrendRows(_, _)
TrendRows(dfm, keys) ==
    IF keys = <<>> THEN <<>>
    ELSE <<[month |-> Head(keys),
            amount |-> SumAmounts(SelectSeq(dfm, LAMBDA row : row.month = Head(keys)))]>>
             \o TrendRows(dfm, Tail(keys))

MonthlyTrend(df) ==
    LET dfm == WithMonth(df) IN
    TrendRows(dfm, SortedTexts({dfm[i].month : i \in 1..Len(dfm)}))

\* The frame the insights are computed from: the expenses of the owner
\* within the range (the df of get_spending_insights), as an outcome.
InsightFrame(db, user_id, start_date, end_date) ==
    LET range == InsightRange(start_date, end_date) IN
    get_transactions(db, user_id, range.start_date, range.end_date, None, Str("expense"))

\* get_spending_insights once the frame is fetched: got is the outcome of
\* the get_transactions call.
SpendingInsights(user_id, got) ==
    IF ~IsInt(user_id) \/ user_id.n <= 0
    THEN Raise("ValueError", "user_id must be a positive integer")
    ELSE IF got.kind # "ok"
    THEN Raise("RuntimeError", "Failed to get spending insights: " \o got.val)
    ELSE IF got.rows = <<>>
    THEN OkSummary(0, <<>>, <<>>)
    ELSE OkSummary(SumAmounts(got.rows), CategoryBreakdown(got.rows), MonthlyTrend(got.rows))

get_spending_insights(db, user_id, start_date, end_date) ==
    SpendingInsights(user_id, InsightFrame(db, user_id, start_date, end_date))

(***************************************************************************)
(* Inputs of the classifier runs.                                          *)
(***************************************************************************)
DescTokens ==
    {"Dinner at restaurant", "random text", "eat", "Bus", "x", " ",
     "mall", "gift", "ga", "s"}

RECURSIVE DescTexts(_)
DescTexts(k) ==
    IF k = 0 THEN {""}
    ELSE DescTexts(k - 1) \cup {d \o t : d \in DescTexts(k - 1), t \in DescTokens}

DescInputs == {None, PyInt(5)} \cup {Str(d) : d \in DescTexts(MaxDescTokens)}

AmountInputs ==
    {None, Str("12"), NaN} \cup
    {Money(c) : c \in {-100, 0, 1, 2999, 3000, 3001, 6525, 10000, 29999, 30000, 30001, 50000}}

(***************************************************************************)
(* The classifier on its own: one call per run, inputs drawn at the start. *)
(***************************************************************************)
InitClassify ==
    /\ users = <<>>
    /\ ledger = <<>>
    /\ nextId = 1
    /\ session = NoSession
    /\ legacy = FALSE
    /\ \E d \in DescInputs, a \in AmountInputs :
           last = [op |-> "input", description |-> d, amount |-> a, res |-> Ok("")]

Categorize ==
    /\ last.op = "input"
    /\ last' = [last EXCEPT !.op = "categorize",
                            !.res = categorize(last.description, last.amount)]
    /\ UNCHANGED <<users, ledger, nextId, session, legacy>>

NextClassify == Categorize

SpecClassify == InitClassify /\ [][NextClassify]_vars

(***************************************************************************)
(* ui.py: the update and delete requests.  The forms call                  *)
(* self.db.update_transaction and self.db.delete_transaction; the lookup   *)
(* of a name the class FinanceDatabase does not define raises.             *)
(***************************************************************************)
FinanceDatabaseMethods ==
    {"__init__", "_create_tables", "create_tables", "reset_database",
     "add_transaction", "get_transactions", "get_spending_insights",
     "create_user", "get_user_by_username"}

\* getattr(self.db, name)
MethodLookup(name) ==
    IF name \in FinanceDatabaseMethods THEN Ok(name)
    ELSE Raise("AttributeError", "'FinanceDatabase' object has no attribute '" \o name \o "'")

\* self.db.update_transaction(user_id=..., transaction_id=..., ...) and
\* self.db.delete_transaction(user_id, transaction_id)
update_transaction(db, user_id, transaction_id) ==
    Done(MethodLookup("update_transaction"), db)

delete_transaction(db, user_id, transaction_id) ==
    Done(MethodLookup("delete_transaction"), db)

(***************************************************************************)
(* The store in use: a session of calls on one database.                   *)
(***************************************************************************)
Store == DB(users, ledger, nextId)

SetStore(db) ==
    /\ users' = db.users
    /\ ledger' = db.ledger
    /\ nextId' = db.nextId
    /\ UNCHANGED <<session, legacy>>

Init ==
    /\ users = NewDatabase.users
    /\ ledger = NewDatabase.ledger
    /\ nextId = NewDatabase.nextId
    /\ last = [op |-> "init"]
    /\ session = NoSession
    /\ legacy = FALSE

\* Arguments of the calls of a session.
UserIdInputs == {PyInt(k) : k \in 0..MaxUsers}
SessionAddInputs ==
    [user_id : UserIdInputs,
     description : {Str("Bus eat")},
     amount : {Money(0), Money(2500)},
     date : {Str("2025-08-20")},
     type : {Str("expense")},
     category : {None, Str("crypto")},
     receipt_image : {None}]

\* Arguments of a single add_transaction call, every field with valid and
\* invalid values.
AddInputs ==
    [user_id : {PyInt(0), PyInt(1), PyInt(MaxUsers + 1), Str("1")},
     description : {None, Str(""), Str("  "), Str("Bus eat"), Str("xyz")},
     amount : {Str("12"), NaN, Money(0), Money(1), Money(45000)},
     date : {None, Str("2025-09-05"), Str("2025-9-5"), Str("2025-02-30"), Str("05/09/2025")},
     type : {Str("income"), Str("expense"), Str("transfer")},
     category : {None, Str(""), Str("crypto"), PyInt(5)},
     receipt_image : {None, Str("aGk=")}]

\* Usernames of a sign-up: a new one, the one of the demo user, an empty one.
UsernameInputs == {Str("user" \o NatText(Len(users) + 1)), Str("demo"), Str("")}

\* Filters of the queries of a session.
TransactionFilterInputs ==
    [start_date : {None, Str("2025-09-16")},
     end_date : {None},
     category : {None},
     type : {None, Str("expense")}]

InsightRangeInputs ==
    {[start_date |-> None, end_date |-> None],
     [start_date |-> Str("2025-09-16"), end_date |-> None],
     [start_date |-> None, end_date |-> Str("2025-09-16")],
     [start_date |-> Str("2025-08-01"), end_date |-> Str("2025-09-16")],
     [start_date |-> Str("16/09/2025"), end_date |-> Str("2025-09-16")]}

\* Transactions of the update and delete requests: a sample row and the
\* first row added after the samples.
TransactionIdInputs == {1, NewDatabase.nextId}

ApplyAdd(a) ==
    LET out == add_transaction(Store, a.user_id, a.description, a.amount, a.date,
                               a.type, a.category, a.receipt_image)
    IN /\ SetStore(out.db)
       /\ last' = [op |-> "add_transaction", args |-> a, res |-> out.res]

AddTransaction ==
    \E a \in SessionAddInputs :
        /\ ApplyAdd(a)
        /\ Len(ledger') <= Len(NewDatabase.ledger) + MaxAdded

CreateUser ==
    /\ Len(users) < MaxUsers
    /\ \E username \in UsernameInputs :
           LET out == create_user(Store, username, Str(HashPw("secret")))
           IN /\ SetStore(out.db)
              /\ last' = [op |-> "create_user", args |-> username, res |-> out.res]

GetTransactions ==
    \E user_id \in UserIdInputs, f \in TransactionFilterInputs :
        /\ last' = [op |-> "get_transactions",
                    args |-> [user_id |-> user_id, start_date |-> f.start_date,
                              end_date |-> f.end_date, category |-> f.category, type |-> f.type],
                    res |-> get_transactions(Store, user_id, f.start_date, f.end_date,
                                             f.category, f.type)]
        /\ UNCHANGED <<users, ledger, nextId, session, legacy>>

GetSpendingInsights ==
    \E user_id \in UserIdInputs, r \in InsightRangeInputs :
        /\ last' = [op |-> "get_spending_insights",
                    args |-> [user_id |-> user_id, start_date |-> r.start_date,
                              end_date |-> r.end_date],
                    res |-> get_spending_insights(Store, user_id, r.start_date, r.end_date)]
        /\ UNCHANGED <<users, ledger, nextId, session, legacy>>

UpdateTransaction ==
    \E user_id \in UserIds(Store), transaction_id \in TransactionIdInputs :
        LET out == update_transaction(Store, PyInt(user_id), transaction_id)
        IN /\ SetStore(out.db)
           /\ last' = [op |-> "update_transaction",
                       args |-> [user_id |-> user_id, transaction_id |-> transaction_id],
                       res |-> out.res]

DeleteTransaction ==
    \E user_id \in UserIds(Store), transaction_id \in TransactionIdInputs :
        LET out == delete_transaction(Store, PyInt(user_id), transaction_id)
        IN /\ SetStore(out.db)
           /\ last' = [op |-> "delete_transaction",
                       args |-> [user_id |-> user_id, transaction_id |-> transaction_id],
                       res |-> out.res]

Next ==
    \/ CreateUser
    \/ AddTransaction
    \/ GetTransactions
    \/ GetSpendingInsights
    \/ UpdateTransaction
    \/ DeleteTransaction

Spec == Init /\ [][Next]_vars

(***************************************************************************)
(* One add_transaction call on a store, over the whole input space.        *)
(***************************************************************************)
AddTransactionOnce ==
    /\ last.op = "init"
    /\ \E a \in AddInputs : ApplyAdd(a)

NextAdd == AddTransactionOnce

SpecAdd == Init /\ [][NextAdd]_vars

(***************************************************************************)
(* analytics.py: Analytics.get_spending_insights.  The outcome is the      *)
(* value the caller gets and the message st.error shows ("" for none).     *)
(***************************************************************************)
Shown(res, msg) == [res |-> res, shown |-> msg]

\* except Exception as e: st.error(...); return the summary of no spending.
OnInsightError(e) == Shown(OkSummary(0, <<>>, <<>>), "Failed to get spending insights: " \o e.val)

\* try: return ... except Exception as e: ...
InsightsOrSummary(out) == IF out.kind = "ok" THEN Shown(out, "") ELSE OnInsightError(out)

Analytics_get_spending_insights(db, self_user_id, user_id, start_date, end_date) ==
    InsightsOrSummary(get_spending_insights(db, IF Truthy(user_id) THEN user_id ELSE self_user_id,
                                            start_date, end_date))

(***************************************************************************)
(* analytics.py: show_advanced_analytics.  The outcome is what the page    *)
(* shows: an error or info message, the predicted monthly spending and the *)
(* month-over-month comparison.                                            *)
(***************************************************************************)
\* len(transactions) > 10
MinPredictionRows == 10

\* strftime('%Y-%m') of now and of the day before the first of the month.
CurrentMonth == SubSeq(Today, 1, 7)
LastMonth ==
    LET y == ToNat(SubSeq(Today, 1, 4))
        m == ToNat(SubSeq(Today, 6, 7))
    IN  IF m = 1 THEN ZeroPad(NatText(y - 1), 4) \o "-12"
        ELSE ZeroPad(NatText(y), 4) \o "-" \o ZeroPad(NatText(m - 1), 2)

\* The sum of the expenses of a frame in the month of a label.
SpendingOf(rows, month) ==
    SumAmounts(SelectSeq(rows, LAMBDA row : row.type = "expense" /\ MonthOf(row.date) = month))

\* A quotient of two float64 sums times 100, in tenths of a percent: a
\* division by zero gives inf, or nan for 0 / 0, with a warning and no
\* exception.
PctChange(current_spending, last_spending) ==
    IF last_spending = 0
    THEN [tag |-> (IF current_spending = 0 THEN "nan" ELSE "inf"), n |-> 0]
    ELSE LET diff == current_spending - last_spending
             size == IF diff < 0 THEN -diff ELSE diff
         IN  [tag |-> "float", n |-> (2000 * size + last_spending) \div (2 * last_spending)]

NoComparison == [report |-> "nothing", pct |-> [tag |-> "none", n |-> 0], trend |-> ""]

\* A test of the previous month that takes a total of 0 for data.
HasPriorDataAlways(last_spending) == last_spending >= 0

\* if last_spending > 0
HasPriorData(last_spending) == last_spending > 0

\* A direction that calls equal totals a rise.
TrendUpOnEqual(current_spending, last_spending) ==
    IF current_spending >= last_spending THEN "up" ELSE "down"

\* trend = "up" if change_pct > 0 else "down": the quotient is above 0
\* exactly when the current total is above the previous one.
Trend(current_spending, last_spending) ==
    IF current_spending > last_spending THEN "up" ELSE "down"

\* The three cases of the comparison, on the totals of the two months.
Compare(current_spending, last_spending) ==
    IF HasPriorData(last_spending)
    THEN [report |-> "change",
          pct |-> PctChange(current_spending, last_spending),
          trend |-> Trend(current_spending, last_spending)]
    ELSE IF current_spending > 0
    THEN [NoComparison EXCEPT !.report = "No spending data available for last month"]
    ELSE NoComparison

\* Spending comparison: the change in percent when the previous month has
\* spending, a notice when only the current month has.
MonthComparison(rows) == Compare(SpendingOf(rows, CurrentMonth), SpendingOf(rows, LastMonth))

\* The mean of the amounts of a trend, to the cent; 0 for an empty one.
MeanAmount(trend) ==
    IF trend = <<>> THEN 0
    ELSE (2 * SumSeq([i \in 1..Len(trend) |-> trend[i].amount]) + Len(trend))
             \div (2 * Len(trend))

\* The mean of the monthly expense totals.
AverageMonthlySpending(rows) ==
    MeanAmount(MonthlyTrend(SelectSeq(rows, LAMBDA row : row.type = "expense")))

Page(error, info, predicted, average, comparison) ==
    [error |-> error, info |-> info, predicted |-> predicted, average |-> average,
     comparison |-> comparison]

\* A threshold that ten transactions pass.
EnoughForPredictionInclusive(rows) == Len(rows) >= MinPredictionRows

\* if len(transactions) > 10
EnoughForPrediction(rows) == Len(rows) > MinPredictionRows

\* The page for the outcome of db.get_transactions(user_id).
PageOf(transactions) ==
    IF transactions.kind # "ok"
    THEN Page("Failed to load advanced analytics: " \o transactions.val, "", FALSE, 0, NoComparison)
    ELSE IF transactions.rows = <<>>
    THEN Page("", "No transaction data available for analytics", FALSE, 0, NoComparison)
    ELSE IF EnoughForPrediction(transactions.rows)
    THEN Page("", "", TRUE, AverageMonthlySpending(transactions.rows),
              MonthComparison(transactions.rows))
    ELSE Page("", "", FALSE, 0, NoComparison)

show_advanced_analytics(db, user_id) ==
    PageOf(get_transactions(db, user_id, None, None, None, None))

(***************************************************************************)
(* The ledger of a session with its queries: transactions are added, also  *)
(* with a date that has no leading zeros, and the ledger is queried with    *)
(* every combination of the filters.                                       *)
(***************************************************************************)
LedgerAddInputs ==
    LET row(user_id, date, type, category) ==
            [user_id |-> PyInt(user_id), description |-> Str("Bus eat"),
             amount |-> Money(2500), date |-> Str(date), type |-> Str(type),
             category |-> category, receipt_image |-> None]
    IN  {row(1, "2025-9-5", "expense", None),
         row(1, "2025-08-20", "expense", None),
         row(1, "2025-09-10", "income", Str("crypto")),
         row(2, "2025-09-10", "expense", None)}

\* The owners the ledger is queried for: every user a session can have.
LedgerOwnerInputs == {PyInt(k) : k \in 1..MaxUsers}

LedgerFilterInputs ==
    LET f(start_date, end_date, category, type) ==
            [start_date |-> start_date, end_date |-> end_date,
             category |-> category, type |-> type]
    IN  {f(None, None, None, None),
         f(Str("2025-09-01"), Str("2025-09-16"), None, None),
         f(Str("2025-09-16"), None, None, Str("expense")),
         f(None, Str("2025-09-16"), Str("food"), None),
         f(None, None, Str("food"), Str("expense")),
         f(Str("2025-08-01"), Str("2025-09-16"), Str("food"), Str("expense"))}

LedgerRangeInputs ==
    {[start_date |-> None, end_date |-> None],
     [start_date |-> Str("2025-09-19"), end_date |-> None],
     [start_date |-> Str("2025-08-01"), end_date |-> Str("2025-09-16")],
     [start_date |-> Str("2025-09-01"), end_date |-> Str("2025-09-16")],
     [start_date |-> Str("2025-08-01"), end_date |-> Str("2025-9-9")],
     [start_date |-> Str("2025-10-01"), end_date |-> Str("2025-10-31")]}

\* The arguments of the wrapper: the user_id left out or invalid, and a
\* range that is unset, well formed or malformed.
AnalyticsUserIdInputs == {None, PyInt(-1)}
AnalyticsRangeInputs ==
    {[start_date |-> None, end_date |-> None],
     [start_date |-> Str("2025-10-01"), end_date |-> Str("2025-10-31")],
     [start_date |-> Str("16/09/2025"), end_date |-> Str("2025-09-16")]}

\* reset_database: the three tables are dropped and created anew, which
\* seeds the demo user and the sample rows again.
reset_database(db) == CreateTables(DB(<<>>, <<>>, 1))

\* create_tables, called by FinanceDatabase(): a transactions table without
\* the user_id column resets the store, otherwise missing tables are created.
create_tables(db, old_schema) ==
    IF old_schema THEN reset_database(db) ELSE CreateTables(db)

\* get_user_by_username: the row of the user (id 0 stands for None), or
\* ValueError for a username that is not a non-empty text.
get_user_by_username(db, username) ==
    IF ~Truthy(username) \/ ~IsStr(username)
    THEN [kind |-> "ValueError", id |-> 0, password_hash |-> "",
          val |-> "Username must be a non-empty string"]
    ELSE IF \E i \in UserIds(db) : db.users[i].username = username.s
    THEN LET i == CHOOSE i \in UserIds(db) : db.users[i].username = username.s
         IN [kind |-> "ok", id |-> i, password_hash |-> db.users[i].password_hash, val |-> ""]
    ELSE [kind |-> "ok", id |-> 0, password_hash |-> "", val |-> ""]

\* A classifier whose answer follows the newest row of the ledger.
LedgerCategorizeByLedger ==
    \E d \in {Str("Bus eat"), Str("  ")}, a \in {Money(2500), Money(45000)} :
        /\ last' = [op |-> "categorize", args |-> [description |-> d, amount |-> a],
                    res |-> Ok(ledger[Len(ledger)].category)]
        /\ UNCHANGED <<users, ledger, nextId, session, legacy>>

\* ExpenseClassifier().categorize called between the calls on the store.
LedgerCategorize ==
    \E d \in {Str("Bus eat"), Str("  ")}, a \in {Money(2500), Money(45000)} :
        /\ last' = [op |-> "categorize", args |-> [description |-> d, amount |-> a],
                    res |-> categorize(d, a)]
        /\ UNCHANGED <<users, ledger, nextId, session, legacy>>

LedgerGetUserByUsername ==
    \E username \in {Str("demo"), Str("ghost"), Str("")} :
        /\ last' = [op |-> "get_user_by_username", args |-> username,
                    res |-> get_user_by_username(Store, username)]
        /\ UNCHANGED <<users, ledger, nextId, session, legacy>>

LedgerResetDatabase ==
    /\ SetStore(reset_database(Store))
    /\ last' = [op |-> "reset_database"]

LedgerCreateUser ==
    /\ Len(users) < MaxUsers
    /\ LET out == create_user(Store, Str("user" \o NatText(Len(users) + 1)), Str(HashPw("secret")))
       IN /\ SetStore(out.db)
          /\ last' = [op |-> "create_user", args |-> Str("user" \o NatText(Len(users) + 1)),
                      res |-> out.res]

\* An insert that overwrites the newest row of the ledger.
LedgerAddTransactionReplacing ==
    \E a \in LedgerAddInputs :
        /\ a.user_id = PyInt(1)
        /\ ledger' = [ledger EXCEPT ![Len(ledger)].description = a.description.s,
                                     ![Len(ledger)].date = a.date.s]
        /\ last' = [op |-> "add_transaction", args |-> a, res |-> Ok("None")]
        /\ UNCHANGED <<users, nextId, session, legacy>>

LedgerAddTransaction ==
    \E a \in LedgerAddInputs :
        /\ ApplyAdd(a)
        /\ Len(ledger') <= Len(NewDatabase.ledger) + MaxAdded

LedgerGetTransactions ==
    \E user_id \in LedgerOwnerInputs, f \in LedgerFilterInputs :
        /\ last' = [op |-> "get_transactions",
                    args |-> [user_id |-> user_id, start_date |-> f.start_date,
                              end_date |-> f.end_date, category |-> f.category, type |-> f.type],
                    res |-> get_transactions(Store, user_id, f.start_date, f.end_date,
                                             f.category, f.type)]
        /\ UNCHANGED <<users, ledger, nextId, session, legacy>>

LedgerGetSpendingInsights ==
    \E user_id \in LedgerOwnerInputs, r \in LedgerRangeInputs :
        /\ last' = [op |-> "get_spending_insights",
                    args |-> [user_id |-> user_id, start_date |-> r.start_date,
                              end_date |-> r.end_date],
                    res |-> get_spending_insights(Store, user_id, r.start_date, r.end_date)]
        /\ UNCHANGED <<users, ledger, nextId, session, legacy>>

AnalyticsCall(args, out) ==
    [op |-> "Analytics.get_spending_insights", args |-> args, res |-> out.res,
     shown |-> out.shown]

AnalyticsGetSpendingInsights ==
    \E self_user_id \in UserIds(Store), user_id \in AnalyticsUserIdInputs, r \in AnalyticsRangeInputs :
        /\ last' = AnalyticsCall([self_user_id |-> PyInt(self_user_id), user_id |-> user_id,
                                  start_date |-> r.start_date, end_date |-> r.end_date],
                                 Analytics_get_spending_insights(Store, PyInt(self_user_id), user_id,
                                                                 r.start_date, r.end_date))
        /\ UNCHANGED <<users, ledger, nextId, session, legacy>>

NextLedger ==
    \/ LedgerCreateUser
    \/ LedgerAddTransaction
    \/ LedgerGetTransactions
    \/ LedgerGetSpendingInsights
    \/ AnalyticsGetSpendingInsights
    \/ LedgerCategorize
    \/ LedgerGetUserByUsername
    \/ LedgerResetDatabase

SpecLedger == Init /\ [][NextLedger]_vars

(***************************************************************************)
(* The analytics page on the ledger of a user who has entered expenses of  *)
(* the current month, expenses of the previous month and other             *)
(* transactions.                                                           *)
(***************************************************************************)
\* The numbers of other transactions of a user with k expenses in the two
\* months: none, and those that bring the ledger of the user to the
\* threshold of the predictions and just above it.
OtherRowCounts(k) == {0, MinPredictionRows - k, MinPredictionRows + 1 - k}

\* db after the add_transaction calls of a sequence of arguments.
RECURSIVE AddAll(_, _)
AddAll(db, calls) ==
    IF calls = <<>> THEN db
    ELSE AddAll(add_transaction(db, Head(calls).user_id, Head(calls).description,
                                Head(calls).amount, Head(calls).date, Head(calls).type,
                                Head(calls).category, Head(calls).receipt_image).db,
                Tail(calls))

\* k calls with the same arguments.
PageRows(k, user_id, amount, date, type) ==
    [i \in 1..k |->
        [user_id |-> PyInt(user_id), description |-> Str("Bus eat"), amount |-> Money(amount),
         date |-> Str(date), type |-> Str(type), category |-> Str("general"),
         receipt_image |-> None]]

\* The store after a sign-up and the transactions of the new user, whose
\* id is u: nCur expenses of this month, nPrev of the previous one, and
\* nOther others, nOld of them older expenses and the rest income of this
\* month.
EnteredLedger(u, nCur, nPrev, nOther, nOld) ==
    AddAll(create_user(NewDatabase, Str("user2"), Str(HashPw("secret"))).db,
           PageRows(nCur, u, 2500, "2025-09-10", "expense")
               \o PageRows(nPrev, u, 5000, "2025-08-20", "expense")
               \o PageRows(nOther - nOld, u, 90000, "2025-09-05", "income")
               \o PageRows(nOld, u, 1200, "2025-07-15", "expense"))

StoreIs(db) ==
    /\ users = db.users
    /\ ledger = db.ledger
    /\ nextId = db.nextId
    /\ session = NoSession
    /\ legacy = FALSE

InitAnalytics ==
    \E nCur \in 0..MaxMonthRows, nPrev \in 0..MaxMonthRows :
      \E nOther \in OtherRowCounts(nCur + nPrev) :
       \E nOld \in {0, nOther \div 2} :
        /\ StoreIs(EnteredLedger(2, nCur, nPrev, nOther, nOld))
        /\ last = [op |-> "init"]

ShowAdvancedAnalytics ==
    /\ last.op = "init"
    /\ \E user_id \in UserIds(Store) :
           last' = [op |-> "show_advanced_analytics", args |-> [user_id |-> PyInt(user_id)],
                    res |-> show_advanced_analytics(Store, PyInt(user_id))]
    /\ UNCHANGED <<users, ledger, nextId, session, legacy>>

NextAnalytics == ShowAdvancedAnalytics

SpecAnalytics == InitAnalytics /\ [][NextAnalytics]_vars


(***************************************************************************)
(* Properties of the classifier.                                           *)
(***************************************************************************)
(* ui.py: FinanceUI.bulk_import_ui, the handler of the Import button.      *)
(***************************************************************************)
MaxImportRows == 3

\* str(v) of a cell: a text is itself, a blank cell (NaN) reads nan.
PyStr(v) ==
    CASE v.tag = "str" -> v.s
      [] v.tag = "nan" -> "nan"
      [] v.tag = "None" -> "None"
      [] OTHER -> NatText(v.n \div 100) \o "." \o
                  (IF v.n % 10 = 0 THEN NatText((v.n % 100) \div 10)
                   ELSE ZeroPad(NatText(v.n % 100), 2))

\* float(v) raises ValueError on a text that is not a number; the number
\* texts of the model are the unsigned whole numbers.
FloatFails(v) == v.tag = "str" /\ (Strip(v.s) = "" \/ ~AllDigits(Strip(v.s)))

\* float(v) of a number, of NaN and of a number text.
FloatOf(v) ==
    CASE v.tag = "str" -> [tag |-> "float", s |-> "", n |-> 100 * ToNat(Strip(v.s))]
      [] v.tag = "nan" -> NaN
      [] OTHER -> [tag |-> "float", s |-> "", n |-> v.n]

\* errors.append(f"Row {index+1}: {msg}")
WithError(acc, index, msg) ==
    [acc EXCEPT !.errors = Append(@, [row |-> index + 1, msg |-> msg])]

\* A loop body that drops the exception of a failed add_transaction call.
AfterAddSilent(acc, index, out) ==
    IF out.res.kind = "ok"
    THEN [acc EXCEPT !.db = out.db, !.imported_count = @ + 1]
    ELSE acc

\* The end of the loop body: the outcome of the add_transaction call, which
\* is made without a category; an exception is recorded as the row's error.
AfterAdd(acc, index, out) ==
    IF out.res.kind = "ok"
    THEN [acc EXCEPT !.db = out.db, !.imported_count = @ + 1]
    ELSE WithError(acc, index, out.res.val)

\* The body of the loop over df.iterrows() for the row at position index.
ImportRow(acc, user_id, index, row) ==
    IF Strip(PyStr(row.description)) = ""
    THEN WithError(acc, index, "Description is empty")
    ELSE IF FloatFails(row.amount)
    THEN WithError(acc, index, "could not convert string to float: '" \o row.amount.s \o "'")
    ELSE IF PyLe(FloatOf(row.amount), 0)
    THEN WithError(acc, index, "Amount must be positive")
    ELSE IF strptime(Str(PyStr(row.date))).kind # "ok"
    THEN WithError(acc, index, strptime(Str(PyStr(row.date))).val)
    ELSE IF Lower(PyStr(row.type)) \notin {"income", "expense"}
    THEN WithError(acc, index, "Type must be 'income' or 'expense'")
    ELSE AfterAdd(acc, index,
                  add_transaction(acc.db, user_id, Str(Strip(PyStr(row.description))),
                                  FloatOf(row.amount), Str(PyStr(row.date)),
                                  Str(Lower(PyStr(row.type))), None, None))

\* for index, row in df.iterrows(), from position index on.
RECURSIVE ImportRows(_, _, _, _)
ImportRows(acc, user_id, index, rows) ==
    IF index >= Len(rows) THEN acc
    ELSE ImportRows(ImportRow(acc, user_id, index, rows[index + 1]),
                    user_id, index + 1, rows)

\* The handler: a file without one of the required columns is refused as a
\* whole, otherwise every row is tried in turn.
bulk_import_ui(db, user_id, df) ==
    IF ~({"description", "amount", "date", "type"} \subseteq df.columns)
    THEN [db |-> db, imported_count |-> 0, errors |-> <<>>, refused |-> TRUE]
    ELSE ImportRows([db |-> db, imported_count |-> 0, errors |-> <<>>, refused |-> FALSE],
                    user_id, 0, df.rows)

\* The records of an uploaded file: a valid one without a category, a valid
\* one with a freeform category, and one for each way a row can fail.
ImportRowInputs ==
    LET good == [description |-> Str("Bus eat"), amount |-> Money(2500),
                 date |-> Str("2025-09-10"), type |-> Str("expense"), category |-> NaN]
    IN {good,
        [good EXCEPT !.description = Str(" Taxi "), !.type = Str("Income"),
                     !.category = Str("crypto")],
        [good EXCEPT !.description = Str("  ")],
        [good EXCEPT !.description = NaN],
        [good EXCEPT !.amount = Money(0)],
        [good EXCEPT !.amount = Str("abc")],
        [good EXCEPT !.amount = NaN],
        [good EXCEPT !.date = Str("10/09/2025")],
        [good EXCEPT !.type = Str("transfer")]}

\* The uploaded files: every list of at most MaxImportRows records under
\* the five columns, and files that lack the type column.
ImportFileInputs ==
    [columns : {{"description", "amount", "date", "type", "category"}},
     rows : UNION {[1..n -> ImportRowInputs] : n \in 0..MaxImportRows}]
    \cup [columns : {{"description", "amount", "date", "category"}},
          rows : UNION {[1..n -> ImportRowInputs] : n \in 0..1}]

\* The store of a session with a second account.
InitImport ==
    /\ StoreIs(create_user(NewDatabase, Str("user2"), Str(HashPw("secret"))).db)
    /\ last = [op |-> "init"]

ImportDone(owner, df, out) ==
    /\ SetStore(out.db)
    /\ last' = [op |-> "bulk_import", owner |-> owner, df |-> df,
                imported_count |-> out.imported_count, errors |-> out.errors,
                refused |-> out.refused]

BulkImport ==
    /\ last.op = "init"
    /\ \E owner \in 1..Len(users), df \in ImportFileInputs :
           ImportDone(owner, df, bulk_import_ui(Store, PyInt(owner), df))

NextImport == BulkImport

SpecImport == InitImport /\ [][NextImport]_vars

(***************************************************************************)
(* auth.py and the transaction-management page of ui.py: a browser session *)
(* on a store file.                                                        *)
(***************************************************************************)
\* A check that lets every session pass.
check_authAlways(s) == TRUE

\* check_auth: st.session_state.get('authenticated', False)
check_auth(s) == "authenticated" \in s.keys

\* login(username, password) after db = FinanceDatabase(): the session and
\* the value returned, or the exception of the lookup. bcrypt.checkpw holds
\* when the stored hash is the hash of the password.
login(db, s, username, password) ==
    LET user == get_user_by_username(db, username) IN
    IF user.kind # "ok"
    THEN [session |-> s, res |-> Raise(user.kind, user.val)]
    ELSE IF user.id # 0 /\ user.password_hash = HashPw(password)
    THEN [session |-> [s EXCEPT !.keys = @ \cup {"authenticated", "username", "user_id"},
                                !.username = username.s,
                                !.user_id = user.id],
          res |-> Ok("True")]
    ELSE [session |-> s, res |-> Ok("False")]

\* The store file when the session starts: one of the single-user schema
\* whose transactions have no owner, a new file without tables, or one
\* written by the current schema with a second account.
InitSession ==
    /\ last = [op |-> "init", ok |-> TRUE, shown |-> ""]
    /\ session = NoSession
    /\ \/ /\ legacy = TRUE
          /\ users = <<>>
          /\ ledger = <<[NewDatabase.ledger[1] EXCEPT !.user_id = 0]>>
          /\ nextId = 2
       \/ /\ legacy = FALSE
          /\ users = <<>>
          /\ ledger = <<>>
          /\ nextId = 1
       \/ /\ legacy = FALSE
          /\ users = create_user(NewDatabase, Str("user2"), Str(HashPw("secret"))).db.users
          /\ ledger = NewDatabase.ledger
          /\ nextId = NewDatabase.nextId

\* The login form: login() constructs FinanceDatabase() on the store file.
Login ==
    \E username \in {Str("demo"), Str("user2"), Str("ghost"), Str("")},
       password \in {"password", "secret", "wrong"} :
        LET out == login(create_tables(Store, legacy), session, username, password) IN
        /\ users' = create_tables(Store, legacy).users
        /\ ledger' = create_tables(Store, legacy).ledger
        /\ nextId' = create_tables(Store, legacy).nextId
        /\ legacy' = FALSE
        /\ session' = out.session
        /\ last' = [op |-> "login", ok |-> out.res = Ok("True"),
                    shown |-> username.s \o "/" \o password]

\* The Logout button of the sidebar, shown to an authenticated session:
\* logout() deletes the three keys of the login.
Logout ==
    /\ check_auth(session)
    /\ session' = [session EXCEPT !.keys = @ \ {"authenticated", "username", "user_id"},
                                  !.username = "", !.user_id = 0]
    /\ last' = [op |-> "logout", ok |-> TRUE, shown |-> ""]
    /\ UNCHANGED <<users, ledger, nextId, legacy>>

\* require_auth(func) called without authentication: the login page is
\* shown and func is not run.
RequireAuthDenied ==
    /\ ~check_auth(session)
    /\ last' = [op |-> "login_page", ok |-> FALSE, shown |-> "login_page"]
    /\ UNCHANGED <<users, ledger, nextId, session, legacy>>

\* require_auth(manage_transactions_ui) with authentication: a row of the
\* owner's table is selected or the selection is dropped, and Quick Edit
\* and Quick Delete open the form of the selected transaction.
ManageTransactions ==
    /\ check_auth(session)
    /\ UNCHANGED <<users, ledger, nextId, legacy>>
    /\ \/ \E i \in 1..Len(ledger) :
              /\ ledger[i].user_id = session.user_id
              /\ session' = [session EXCEPT !.selected_transaction = ledger[i].id]
              /\ last' = [op |-> "select", ok |-> TRUE, shown |-> ""]
       \/ /\ session' = [session EXCEPT !.selected_transaction = 0]
          /\ last' = [op |-> "unselect", ok |-> TRUE, shown |-> ""]
       \/ /\ session.selected_transaction # 0
          /\ session' = [session EXCEPT !.edit_mode = TRUE]
          /\ last' = [op |-> "quick_edit", ok |-> TRUE, shown |-> ""]
       \/ /\ session.selected_transaction # 0
          /\ session' = [session EXCEPT !.delete_confirm = TRUE]
          /\ last' = [op |-> "quick_delete", ok |-> TRUE, shown |-> ""]

\* _inline_edit_transaction_form, shown when the selected transaction is a
\* row of the owner's table: Update Transaction with the entered
\* description and amount, or Cancel.
InlineEdit ==
    /\ check_auth(session) /\ session.edit_mode
    /\ \E i \in 1..Len(ledger) :
          /\ ledger[i].id = session.selected_transaction
          /\ ledger[i].user_id = session.user_id
    /\ \/ \E description \in {"  ", "Lunch"}, amount \in {0, 2500} :
              LET out == update_transaction(Store, PyInt(session.user_id),
                                            PyInt(session.selected_transaction))
              IN IF Strip(description) = ""
                 THEN /\ last' = [op |-> "update", ok |-> FALSE, shown |-> "Description is required"]
                      /\ UNCHANGED <<users, ledger, nextId, session, legacy>>
                 ELSE IF amount <= 0
                 THEN /\ last' = [op |-> "update", ok |-> FALSE, shown |-> "Amount must be greater than 0"]
                      /\ UNCHANGED <<users, ledger, nextId, session, legacy>>
                 ELSE IF out.res.kind = "ok"
                 THEN /\ SetStore(out.db)
                      /\ session' = [session EXCEPT !.edit_mode = FALSE, !.selected_transaction = 0]
                      /\ last' = [op |-> "update", ok |-> TRUE, shown |-> "Transaction updated successfully!"]
                 ELSE /\ last' = [op |-> "update", ok |-> FALSE,
                                  shown |-> "Failed to update transaction: " \o out.res.val]
                      /\ UNCHANGED <<users, ledger, nextId, session, legacy>>
       \/ /\ session' = [session EXCEPT !.edit_mode = FALSE, !.selected_transaction = 0]
          /\ last' = [op |-> "cancel_edit", ok |-> TRUE, shown |-> ""]
          /\ UNCHANGED <<users, ledger, nextId, legacy>>

\* A delete form that closes itself when the deletion failed.
InlineDeleteClosing ==
    /\ check_auth(session) /\ session.delete_confirm
    /\ \E i \in 1..Len(ledger) :
          /\ ledger[i].id = session.selected_transaction
          /\ ledger[i].user_id = session.user_id
    /\ session' = [session EXCEPT !.delete_confirm = FALSE, !.selected_transaction = 0]
    /\ last' = [op |-> "delete", ok |-> FALSE, shown |-> "Failed to delete transaction"]
    /\ UNCHANGED <<users, ledger, nextId, legacy>>

\* _inline_delete_transaction_form: Yes, Delete Transaction, or Cancel.
InlineDelete ==
    /\ check_auth(session) /\ session.delete_confirm
    /\ \E i \in 1..Len(ledger) :
          /\ ledger[i].id = session.selected_transaction
          /\ ledger[i].user_id = session.user_id
    /\ \/ LET out == delete_transaction(Store, PyInt(session.user_id),
                                        PyInt(session.selected_transaction))
          IN IF out.res.kind = "ok"
             THEN /\ SetStore(out.db)
                  /\ session' = [session EXCEPT !.delete_confirm = FALSE, !.selected_transaction = 0]
                  /\ last' = [op |-> "delete", ok |-> TRUE, shown |-> "Transaction deleted successfully!"]
             ELSE /\ last' = [op |-> "delete", ok |-> FALSE,
                              shown |-> "Failed to delete transaction: " \o out.res.val]
                  /\ UNCHANGED <<users, ledger, nextId, session, legacy>>
       \/ /\ session' = [session EXCEPT !.delete_confirm = FALSE, !.selected_transaction = 0]
          /\ last' = [op |-> "cancel_delete", ok |-> TRUE, shown |-> ""]
          /\ UNCHANGED <<users, ledger, nextId, legacy>>

NextSession ==
    \/ Login
    \/ Logout
    \/ RequireAuthDenied
    \/ ManageTransactions
    \/ InlineEdit
    \/ InlineDelete

SpecSession == InitSession /\ [][NextSession]_vars

(***************************************************************************)
\* The inputs the contract of categorize calls valid: a text that is not
\* empty after trimming and a number greater than 0.
ValidDescription(d) == d.tag = "str" /\ Strip(d.s) # ""
PositiveAmount(a) == a.tag \in {"int", "float"} /\ a.n > 0
Categorized == last.op = "categorize"
ValidCall == Categorized /\ ValidDescription(last.description) /\ PositiveAmount(last.amount)

\* The positions in the rule set of the categories that have a keyword
\* occurring in the lower-cased description d.
KeywordHits(d) ==
    LET low == Lower(d.s) IN
    {i \in 1..Len(CATEGORIES) : \E k \in CATEGORIES[i].keywords : Contains(low, k)}

\* C1: on a valid input whose lower-cased description contains a keyword of
\* category C and no keyword of a category before C in the rule set,
\* categorize returns C, whatever the amount.
C1_FirstMatchingCategory ==
    ValidCall =>
        LET hits == KeywordHits(last.description) IN
        \A i \in hits :
            (\A j \in 1..(i - 1) : j \notin hits) => last.res = Ok(CATEGORIES[i].name)

\* A description with a transport and a food keyword and an amount above 300
\* was classified as food.
C1_Witness ==
    /\ Categorized
    /\ last.description = Str("Buseat")
    /\ last.amount = Money(50000)
    /\ last.res = Ok("food")

\* C2: on a valid input whose description contains no keyword at all the
\* result is shopping above 300, miscellaneous below 30 and general
\* otherwise, so exactly 30 and exactly 300 give general.
C2_AmountFallback ==
    (ValidCall /\ KeywordHits(last.description) = {})
    => last.res = Ok(IF last.amount.n > 30000 THEN "shopping"
                     ELSE IF last.amount.n < 3000 THEN "miscellaneous"
                     ELSE "general")

\* A description without keyword at exactly 300 was classified as general.
C2_Witness ==
    /\ Categorized
    /\ last.description = Str("random text")
    /\ last.amount = Money(30000)
    /\ last.res = Ok("general")

\* C3: categorize fails exactly when the description is absent, not text or
\* empty after trimming, or the amount is absent, not a number or not
\* greater than 0; on every other input it returns a category.
C3_FailsExactlyOnInvalid ==
    Categorized =>
        (last.res.kind # "ok"
            <=> ~(ValidDescription(last.description) /\ PositiveAmount(last.amount)))

(***************************************************************************)
(* Properties of add_transaction and of the ledger.                        *)
(***************************************************************************)
Added == last.op = "add_transaction"
AddedOk == Added /\ last.res.kind = "ok"
LastRow == ledger[Len(ledger)]

RowValid(row) ==
    /\ row.amount > 0
    /\ row.type \in {"income", "expense"}
    /\ row.category # ""

LedgerRowsValid == \A i \in 1..Len(ledger) : RowValid(ledger[i])

\* C4: after any sequence of add_transaction calls, the seeding included,
\* every row of the ledger has an amount above 0, a kind that is income or
\* expense and a category that is not empty; a call with amount 0 adds no
\* row.
C4_LedgerRowsValid ==
    /\ LedgerRowsValid
    /\ [][/\ LedgerRowsValid'
          /\ (last'.op = "add_transaction" /\ last'.args.amount = Money(0))
                => (ledger' = ledger /\ last'.res.kind = "ValueError")]_vars

\* A call with amount 0 was refused on a ledger that holds the sample rows
\* and a row added after them.
C4_Witness ==
    /\ Added
    /\ last.args.amount = Money(0)
    /\ last.res.kind = "ValueError"
    /\ Len(ledger) > Len(NewDatabase.ledger)

\* The fields of add_transaction in the order of the contract, with the
\* condition the contract puts on each.
FirstInvalidField(a) ==
    IF ~(a.user_id.tag = "int" /\ a.user_id.n > 0) THEN "user_id"
    ELSE IF ~(a.description.tag = "str" /\ a.description.s # "") THEN "description"
    ELSE IF ~PositiveAmount(a.amount) THEN "amount"
    ELSE IF strptime(a.date).kind # "ok" THEN "date"
    ELSE IF a.type \notin {Str("income"), Str("expense")} THEN "type"
    ELSE IF ~(a.category.tag \in {"None", "str"}) THEN "category"
    ELSE "none"

\* The field an error of add_transaction is about, by its message.
ErrorField(res) ==
    CASE res.val = "user_id must be a positive integer" -> "user_id"
      [] res.val = "Description must be a non-empty string" -> "description"
      [] res.val = "Amount must be a positive number" -> "amount"
      [] res.val = "Date must be in YYYY-MM-DD format" -> "date"
      [] res.val = "strptime() argument 1 must be str" -> "date"
      [] res.val = "Type must be 'income' or 'expense'" -> "type"
      [] res.val = "Category must be a string" -> "category"
      [] OTHER -> "other"

\* C5: when fields are invalid the error raised is the one of the first
\* invalid field in the order owner_id, description, amount, date, kind,
\* category, and a failing call leaves the ledger unchanged.
C5_FirstInvalidFieldReported ==
    Added =>
        /\ FirstInvalidField(last.args) # "none" =>
              (last.res.kind # "ok" /\ ErrorField(last.res) = FirstInvalidField(last.args))
        /\ last.res.kind # "ok" => ledger = NewDatabase.ledger

\* C7: a successful add_transaction stores categorize(description, amount)
\* when the category is absent or empty, and the supplied category, also
\* one outside the rule set, when it is a non-empty text.
C7_CategoryResolution ==
    AddedOk =>
        /\ last.args.category \in {None, Str("")} =>
              LastRow.category = categorize(last.args.description, last.args.amount).val
        /\ (last.args.category.tag = "str" /\ last.args.category.s # "") =>
              LastRow.category = last.args.category.s

\* A row whose description the classifier files under food was stored with
\* the supplied category crypto.
C7_Witness ==
    /\ AddedOk
    /\ last.args.description = Str("Bus eat")
    /\ last.args.category = Str("crypto")
    /\ LastRow.category = "crypto"

\* A date text of the form YYYY-MM-DD: ten characters, digits around two
\* hyphens.
IsoDateText(str) ==
    /\ Len(str) = 10
    /\ Char(str, 5) = "-"
    /\ Char(str, 8) = "-"
    /\ AllDigits(SubSeq(str, 1, 4) \o SubSeq(str, 6, 7) \o SubSeq(str, 9, 10))

\* C8: after a successful add_transaction, get_transactions for the same
\* owner returns a record whose description, amount, date, kind, category
\* and receipt are the inputs, the date in YYYY-MM-DD form and the category
\* the one of the classifier when it was blank.
C8_AddThenQueryRoundTrip ==
    AddedOk =>
        LET got == get_transactions(Store, last.args.user_id, None, None, None, None) IN
        /\ got.kind = "ok"
        /\ \E i \in 1..Len(got.rows) :
              /\ got.rows[i].description = last.args.description.s
              /\ got.rows[i].amount = last.args.amount.n
              /\ got.rows[i].date = last.args.date.s
              /\ IsoDateText(got.rows[i].date)
              /\ got.rows[i].type = last.args.type.s
              /\ got.rows[i].receipt_image = last.args.receipt_image
              /\ got.rows[i].category =
                    (IF last.args.category \in {None, Str("")}
                     THEN categorize(last.args.description, last.args.amount).val
                     ELSE last.args.category.s)

(***************************************************************************)
(* Properties of the queries and of the update and delete requests.        *)
(***************************************************************************)
\* The rows of owner k, in ledger order.
RowsOf(l, k) == SelectSeq(l, LAMBDA row : row.user_id = k)

\* The results of the queries with the filters of a session, for owner k on
\* the store db.
QueryResults(db, k) ==
    <<[f \in TransactionFilterInputs |->
          get_transactions(db, PyInt(k), f.start_date, f.end_date, f.category, f.type)],
      [r \in InsightRangeInputs |->
          get_spending_insights(db, PyInt(k), r.start_date, r.end_date)]>>

\* The query of the last step, made again on the store db.
LastQueryOn(db) ==
    LET a == last.args IN
    IF last.op = "get_transactions"
    THEN get_transactions(db, a.user_id, a.start_date, a.end_date, a.category, a.type)
    ELSE get_spending_insights(db, a.user_id, a.start_date, a.end_date)

\* The store with the ledger restricted to the rows of owner k, and the store
\* without the last row of the ledger.
OnlyRowsOf(db, k) == [db EXCEPT !.ledger = RowsOf(@, k)]
WithoutLastRow(db) == [db EXCEPT !.ledger = SubSeq(@, 1, Len(@) - 1)]

\* C6: the queries made for owner A return only data of the rows of A: what
\* a query returns is what it returns on the ledger restricted to the rows
\* of A; and adding a row for another owner B changes no result of a query
\* made for A: a step that grows the ledger is a successful add_transaction
\* that appends one row, and after it the queries of every other owner give
\* what they give on the ledger without that row.
C6_OwnerIsolation ==
    /\ [](last.op \in {"get_transactions", "get_spending_insights"}
            => last.res = LastQueryOn(OnlyRowsOf(Store, last.args.user_id.n)))
    /\ [](AddedOk =>
            \A k \in (1..MaxUsers) \ {LastRow.user_id} :
                QueryResults(Store, k) = QueryResults(WithoutLastRow(Store), k))
    /\ [][ledger' # ledger => (AddedOk' /\ WithoutLastRow(Store').ledger = ledger)]_vars

\* A row was added for the second user on a ledger that holds the rows of
\* the first.
C6_Witness ==
    /\ AddedOk
    /\ LastRow.user_id = 2
    /\ \E i \in 1..Len(ledger) : ledger[i].user_id = 1

\* C9: an update or a delete requested by a user who does not own the
\* transaction fails with a not-found error and leaves the transaction in
\* the ledger of its owner.
C9_ForeignRequestNotFound ==
    (last.op \in {"update_transaction", "delete_transaction"}
        /\ \E i \in 1..Len(ledger) :
              ledger[i].id = last.args.transaction_id /\ ledger[i].user_id # last.args.user_id)
    => /\ last.res.kind = "NotFoundError"
       /\ \E i \in 1..Len(ledger) : ledger[i].id = last.args.transaction_id

\* C10: get_spending_insights takes the default range, the first day of the
\* current month through today, only when both bounds are unset; a bound
\* that is supplied alone is kept and filters the transactions.
C10_DefaultRangeOnlyWhenBothUnset ==
    (last.op = "get_spending_insights" /\ last.res.kind = "ok") =>
        LET a == last.args
            over(s, e) ==
                SpendingInsights(a.user_id,
                                 get_transactions(Store, a.user_id, s, e, None, Str("expense")))
        IN /\ (a.start_date = None /\ a.end_date = None)
                => last.res = over(Str(MonthStart), Str(Today))
           /\ (a.start_date # None /\ a.end_date # None)
                => last.res = over(a.start_date, a.end_date)
           /\ (a.start_date # None /\ a.end_date = None)
                => (last.res = over(a.start_date, None) \/ last.res = over(a.start_date, Str(Today)))
           /\ (a.start_date = None /\ a.end_date # None)
                => (last.res = over(None, a.end_date) \/ last.res = over(Str(MonthStart), a.end_date))

\* C18: when the category is absent or empty and the classifier rejects
\* the description and amount, add_transaction fails with a classification
\* error whose message carries the classifier's message, and no transaction
\* is persisted.
C18_ClassificationErrorWrapped ==
    (/\ Added
     /\ FirstInvalidField(last.args) = "none"
     /\ (last.args.category = None \/ last.args.category = Str(""))
     /\ categorize(last.args.description, last.args.amount).kind # "ok")
    => LET e == categorize(last.args.description, last.args.amount) IN
       /\ last.res.kind = "ValueError"
       /\ last.res.val # e.val
       /\ Contains(last.res.val, "categorize")
       /\ Contains(last.res.val, e.val)
       /\ ledger = NewDatabase.ledger

\* A description made only of blanks, with every other field valid and no
\* category, ended in the classification error.
C18_Witness ==
    /\ Added
    /\ last.args.description = Str("  ")
    /\ last.args.category = None
    /\ last.args.user_id = PyInt(1)
    /\ last.args.amount = Money(45000)
    /\ last.args.date = Str("2025-09-05")
    /\ last.args.type = Str("expense")
    /\ last.res.kind = "ValueError"
    /\ Contains(last.res.val, "Description cannot be empty")
    /\ ledger = NewDatabase.ledger

\* C19: when every field passes validation but the store rejects the
\* insert because no user has the owner id, add_transaction fails with a
\* persistence error, which is not of the kind of a validation error, and
\* the ledger is left unchanged.
C19_PersistenceErrorDistinct ==
    (/\ Added
     /\ FirstInvalidField(last.args) = "none"
     /\ ResolveCategory(last.args.description, last.args.amount, last.args.category).kind = "ok"
     /\ last.args.user_id.n \notin UserIds(NewDatabase))
    => /\ last.res.kind = "RuntimeError"
       /\ last.res.kind # "ValueError"
       /\ Contains(last.res.val, "Failed to add transaction")
       /\ ledger = NewDatabase.ledger
       /\ nextId = NewDatabase.nextId

\* A valid transaction for an owner id no user has was refused by the store.
C19_Witness ==
    /\ Added
    /\ last.args.user_id = PyInt(MaxUsers + 1)
    /\ last.args.description = Str("Bus eat")
    /\ last.args.amount = Money(45000)
    /\ last.args.date = Str("2025-09-05")
    /\ last.args.type = Str("expense")
    /\ last.res = Raise("RuntimeError", "Failed to add transaction: FOREIGN KEY constraint failed")
    /\ ledger = NewDatabase.ledger

(***************************************************************************)
(* Properties of the results of the queries, by calendar date.             *)
(***************************************************************************)
\* The calendar day a date text names, as a number that grows with time.
DateKey(date) == LET t == strptime(Str(date)) IN t.y * 10000 + t.m * 100 + t.d

\* A row lies within the bounds of a call: an unset bound excludes nothing.
WithinDates(row, start_date, end_date) ==
    /\ Truthy(start_date) => DateKey(start_date.s) <= DateKey(row.date)
    /\ Truthy(end_date) => DateKey(row.date) <= DateKey(end_date.s)

\* The positions in the ledger of the expenses of the owner within the
\* bounds.
ExpensesWithin(user_id, start_date, end_date) ==
    {i \in 1..Len(ledger) :
        /\ ledger[i].user_id = user_id.n
        /\ ledger[i].type = "expense"
        /\ WithinDates(ledger[i], start_date, end_date)}

\* The sum of the amounts of the ledger rows at the positions of a set.
RECURSIVE SumAt(_)
SumAt(S) ==
    IF S = {} THEN 0 ELSE LET i == CHOOSE i \in S : TRUE IN ledger[i].amount + SumAt(S \ {i})

GotInsights == last.op = "get_spending_insights" /\ last.res.kind = "ok"
BothBoundsGiven == Truthy(last.args.start_date) /\ Truthy(last.args.end_date)

\* C11: total_spending of get_spending_insights(owner, start, end) is the
\* sum of the amounts of exactly the ledger rows of the owner that are
\* expenses dated from start to end, both days included.
C11_TotalIsSumOfExpensesInRange ==
    (GotInsights /\ BothBoundsGiven)
    => last.res.total_spending =
          SumAt(ExpensesWithin(last.args.user_id, last.args.start_date, last.args.end_date))

\* The frame the insights of the last step were computed from: the
\* filtered expense transactions.
FilteredExpenses ==
    InsightFrame(Store, last.args.user_id, last.args.start_date, last.args.end_date).rows

\* C12: category_breakdown has exactly one row per distinct category among
\* the filtered expense transactions; the total of a row is the sum of the
\* amounts of its category and its count the number of its transactions;
\* the totals add up to total_spending and the counts to the number of
\* filtered transactions, amounts in whole cents.
C12_CategoryBreakdown ==
    GotInsights =>
        LET df == FilteredExpenses
            cb == last.res.category_breakdown
            cats == {df[i].category : i \in 1..Len(df)}
        IN  /\ Len(cb) = Cardinality(cats)
            /\ \A c \in cats :
                  \E i \in 1..Len(cb) :
                      /\ cb[i].category = c
                      /\ cb[i].total =
                            SumSeq([j \in 1..Len(df) |->
                                       IF df[j].category = c THEN df[j].amount ELSE 0])
                      /\ cb[i].count = Cardinality({j \in 1..Len(df) : df[j].category = c})
            /\ SumSeq([i \in 1..Len(cb) |-> cb[i].total]) = last.res.total_spending
            /\ SumSeq([i \in 1..Len(cb) |-> cb[i].count]) = Len(df)

\* The insights of a range with two food expenses and one transport
\* expense have a food row of count 2 and a second row.
C12_Witness ==
    /\ GotInsights
    /\ Len(last.res.category_breakdown) >= 2
    /\ \E i \in 1..Len(last.res.category_breakdown) :
          /\ last.res.category_breakdown[i].category = "food"
          /\ last.res.category_breakdown[i].count = 2
          /\ last.res.category_breakdown[i].total = 11050

\* The calendar month a date text names, and the one a label names.
MonthKey(date) == LET t == strptime(Str(date)) IN t.y * 100 + t.m
LabelKey(label) == ToNat(SubSeq(label, 1, 4)) * 100 + ToNat(SubSeq(label, 6, 7))

\* A label of the form YYYY-MM.
IsMonthLabel(label) ==
    /\ Len(label) = 7
    /\ Char(label, 5) = "-"
    /\ AllDigits(SubSeq(label, 1, 4) \o SubSeq(label, 6, 7))

\* C13: monthly_trend has exactly one row per distinct calendar month among
\* the filtered expense transactions, labelled YYYY-MM; the amount of a row
\* is the sum of the amounts of its month; the rows are in ascending
\* chronological order; and the amounts add up to total_spending.
C13_MonthlyTrend ==
    GotInsights =>
        LET df == FilteredExpenses
            mt == last.res.monthly_trend
            months == {MonthKey(df[i].date) : i \in 1..Len(df)}
        IN  /\ Len(mt) = Cardinality(months)
            /\ \A i \in 1..Len(mt) :
                  /\ IsMonthLabel(mt[i].month)
                  /\ LabelKey(mt[i].month) \in months
                  /\ mt[i].amount =
                        SumSeq([j \in 1..Len(df) |->
                                   IF MonthKey(df[j].date) = LabelKey(mt[i].month)
                                   THEN df[j].amount ELSE 0])
            /\ \A i \in 1..(Len(mt) - 1) : LabelKey(mt[i].month) < LabelKey(mt[i + 1].month)
            /\ SumSeq([i \in 1..Len(mt) |-> mt[i].amount]) = last.res.total_spending

\* The trend of a range with an expense of August and several of September
\* has the two months in order.
C13_Witness ==
    /\ GotInsights
    /\ Len(FilteredExpenses) > 2
    /\ Len(last.res.monthly_trend) = 2
    /\ last.res.monthly_trend[1].month = "2025-08"
    /\ last.res.monthly_trend[2].month = "2025-09"
    /\ last.res.monthly_trend[1].amount = 2500
    /\ last.res.monthly_trend[2].amount > 8550

\* The range a call asks for: the current month up to today when both
\* bounds are unset, the bounds as given otherwise.
AskedRange(start_date, end_date) ==
    IF ~Truthy(start_date) /\ ~Truthy(end_date)
    THEN [start_date |-> Str(MonthStart), end_date |-> Str(Today)]
    ELSE [start_date |-> start_date, end_date |-> end_date]

NoExpenseInRange ==
    LET range == AskedRange(last.args.start_date, last.args.end_date) IN
    ExpensesWithin(last.args.user_id, range.start_date, range.end_date) = {}

\* C14: when the owner has no expense transaction in the range,
\* get_spending_insights raises no error and returns total_spending 0 with
\* an empty category_breakdown and an empty monthly_trend.
C14_EmptyRangeGivesZeroSummary ==
    (last.op = "get_spending_insights" /\ NoExpenseInRange)
    => last.res = OkSummary(0, <<>>, <<>>)

GotTransactions == last.op = "get_transactions" /\ last.res.kind = "ok"

\* The rows of the ledger a get_transactions call asks for: those of the
\* owner that satisfy every filter that is supplied.
AskedRows(a) ==
    {ledger[i] : i \in {j \in 1..Len(ledger) :
        /\ ledger[j].user_id = a.user_id.n
        /\ WithinDates(ledger[j], a.start_date, a.end_date)
        /\ Truthy(a.category) => ledger[j].category = a.category.s
        /\ Truthy(a.type) => ledger[j].type = a.type.s}}

\* C16: get_transactions(owner, start, end, category, kind) returns exactly
\* the transactions of the owner that satisfy every supplied filter: dated
\* from start to end, both days included, of the given category and of the
\* given kind; a filter that is not supplied excludes nothing.
C16_ExactlyTheFilteredRows ==
    GotTransactions =>
        /\ {last.res.rows[i] : i \in 1..Len(last.res.rows)} = AskedRows(last.args)
        /\ Len(last.res.rows) = Cardinality(AskedRows(last.args))

\* C17: the sequence get_transactions returns is ordered by date, newest
\* first: of two consecutive records the calendar date of the earlier one is
\* not before that of the later one.
C17_NewestFirst ==
    GotTransactions =>
        \A i \in 1..(Len(last.res.rows) - 1) :
            DateKey(last.res.rows[i].date) >= DateKey(last.res.rows[i + 1].date)

(***************************************************************************)
(* Properties of the insight computation as its callers see it.            *)
(***************************************************************************)
ComputedInsights ==
    last.op = "get_spending_insights" \/ last.op = "Analytics.get_spending_insights"

\* The owner the computation of the last step is made for.
InsightOwner ==
    IF last.op = "Analytics.get_spending_insights" /\ ~Truthy(last.args.user_id)
    THEN last.args.self_user_id
    ELSE last.args.user_id

\* The computation of the last step has to fail: the owner id is not a
\* positive integer, or a bound that is given is not a date.
InsightFailure ==
    \/ ~(InsightOwner.tag = "int" /\ InsightOwner.n > 0)
    \/ Truthy(last.args.start_date) /\ strptime(last.args.start_date).kind # "ok"
    \/ Truthy(last.args.end_date) /\ strptime(last.args.end_date).kind # "ok"

\* C20: a failure while fetching or computing insights (a malformed date,
\* an invalid owner id) reaches the caller of the insight computation as an
\* error and never as a summary.
C20_InsightFailureIsAnError ==
    (ComputedInsights /\ InsightFailure) => last.res.kind # "ok"

(***************************************************************************)
(* Properties of the analytics page.                                       *)
(***************************************************************************)
\* The page of the last step compares the months: the owner has more
\* transactions than the predictions ask for.
ComparedMonths ==
    /\ last.op = "show_advanced_analytics"
    /\ Len(RowsOf(ledger, last.args.user_id.n)) > MinPredictionRows

\* The expense total of the owner of the last step in a calendar month.
ExpenseTotalIn(month) ==
    SumAt({i \in 1..Len(ledger) :
              /\ ledger[i].user_id = last.args.user_id.n
              /\ ledger[i].type = "expense"
              /\ MonthKey(ledger[i].date) = month})

ThisMonthTotal == ExpenseTotalIn(MonthKey(Today))
PreviousMonthTotal ==
    ExpenseTotalIn(IF MonthKey(Today) % 100 = 1 THEN MonthKey(Today) - 89 ELSE MonthKey(Today) - 1)

\* C15: in the month-over-month comparison a percentage change is reported
\* only when the expense total of the previous month is above 0; when it is
\* 0 and the total of the current month is above 0 the result is the notice
\* that there is no prior data, and nothing is divided; when both are 0
\* nothing is reported.
C15_MonthOverMonth ==
    ComparedMonths =>
        LET c == last.res.comparison IN
        /\ c.report = "change" => (PreviousMonthTotal > 0 /\ c.pct.tag = "float")
        /\ (PreviousMonthTotal = 0 /\ ThisMonthTotal > 0)
              => (c.report = "No spending data available for last month" /\ c.pct.tag = "none")
        /\ (PreviousMonthTotal = 0 /\ ThisMonthTotal = 0) => c = NoComparison

\* The page of a user with expenses this month and none in the previous
\* one showed the notice.
C15_Witness ==
    /\ ComparedMonths
    /\ PreviousMonthTotal = 0
    /\ ThisMonthTotal > 0
    /\ last.res.predicted
    /\ last.res.comparison.report = "No spending data available for last month"

\* The transactions of the owner of the page of the last step.
PageOwnerRows == RowsOf(ledger, last.args.user_id.n)
ShownPage == last.op = "show_advanced_analytics"

\* C29: the average-monthly prediction and the month-over-month comparison
\* are produced only when the owner has more than 10 transactions, income
\* and expense counted alike; with 10 or fewer neither is reported, whatever
\* the totals of the two months are; and with more than 10 transactions and
\* no expense the average is reported as 0.
C29_PredictionNeedsMoreThanTen ==
    ShownPage =>
        /\ last.res.predicted <=> Len(PageOwnerRows) > 10
        /\ Len(PageOwnerRows) <= 10 => (last.res.average = 0 /\ last.res.comparison = NoComparison)
        /\ (Len(PageOwnerRows) > 10 /\ \A i \in 1..Len(PageOwnerRows) : PageOwnerRows[i].type # "expense")
              => (last.res.predicted /\ last.res.average = 0)

\* The page of an owner with exactly 10 transactions, expenses of both
\* months among them, showed neither the prediction nor the comparison.
C29_Witness ==
    /\ ShownPage
    /\ Len(PageOwnerRows) = 10
    /\ ThisMonthTotal > 0
    /\ PreviousMonthTotal > 0
    /\ ~last.res.predicted
    /\ last.res.comparison = NoComparison

\* C30: when the percentage is reported, the direction is up exactly when
\* the expense total of the current month is greater than that of the
\* previous month and down in every other case, equal totals included.
C30_DirectionOfChange ==
    (ShownPage /\ last.res.comparison.report = "change")
    => last.res.comparison.trend = (IF ThisMonthTotal > PreviousMonthTotal THEN "up" ELSE "down")

\* Equal totals of the two months were reported as a change of 0 percent,
\* down.
C30_Witness ==
    /\ ShownPage
    /\ last.res.comparison.report = "change"
    /\ ThisMonthTotal = PreviousMonthTotal
    /\ last.res.comparison.pct = [tag |-> "float", n |-> 0]
    /\ last.res.comparison.trend = "down"

\* The description of the last add_transaction call is blank: a text that is
\* empty once its whitespace is trimmed.
BlankDescription ==
    /\ last.args.description.tag = "str"
    /\ Strip(last.args.description.s) = ""

\* C25: add_transaction rejects a description that is empty after trimming
\* whitespace whether or not a category is supplied, and no row of the
\* ledger has a blank description.
C25_BlankDescriptionRejected ==
    /\ (Added /\ BlankDescription) =>
           (last.res.kind # "ok" /\ ledger = NewDatabase.ledger)
    /\ \A i \in 1..Len(ledger) : Strip(ledger[i].description) # ""

\* The last step was an import that was not refused as a whole; the ledger
\* it started from; the file positions with a recorded error; the file
\* positions without one, in file order.
Imported == last.op = "bulk_import" /\ ~last.refused
LedgerBeforeImport == create_user(NewDatabase, Str("user2"), Str(HashPw("secret"))).db.ledger
ErrorRows == {last.errors[i].row : i \in 1..Len(last.errors)}
KeptRows == SelectSeq([i \in 1..Len(last.df.rows) |-> i], LAMBDA i : i \notin ErrorRows)
AddedRow(j) == ledger[Len(LedgerBeforeImport) + j]
SourceRow(j) == last.df.rows[KeptRows[j]]

\* A record that must not be imported: blank description, an amount that
\* is not a positive number, a date that is not a calendar date, a type
\* other than income and expense.
RecordFails(r) ==
    \/ (r.description.tag = "str" /\ Strip(r.description.s) = "")
    \/ r.amount.tag \in {"str", "nan"}
    \/ r.amount.n <= 0
    \/ ~IsoDateText(r.date.s)
    \/ Lower(r.type.s) \notin {"income", "expense"}

\* C22: an imported record that supplies a category is persisted with that
\* category, freeform ones included; the classifier decides the category
\* only for the records that carry none.
C22_ImportKeepsSuppliedCategory ==
    Imported =>
        \A j \in 1..Len(KeptRows) :
            IF SourceRow(j).category.tag = "str" /\ SourceRow(j).category.s # ""
            THEN AddedRow(j).category = SourceRow(j).category.s
            ELSE AddedRow(j).category =
                    categorize(Str(AddedRow(j).description),
                               [tag |-> "float", s |-> "", n |-> AddedRow(j).amount]).val

\* C27: every row of an imported file is processed on its own: a failing
\* row is recorded as an error and skipped, the rows before it stay and the
\* rows after it are tried; imported rows plus errors equal the rows of the
\* file, and the owner's ledger gains exactly the imported rows.
C27_ImportRowsIndependent ==
    Imported =>
        /\ last.imported_count + Len(last.errors) = Len(last.df.rows)
        /\ Cardinality(ErrorRows) = Len(last.errors)
        /\ ErrorRows \subseteq 1..Len(last.df.rows)
        /\ \A i \in 1..Len(last.df.rows) :
               RecordFails(last.df.rows[i]) <=> i \in ErrorRows
        /\ Len(ledger) = Len(LedgerBeforeImport) + last.imported_count
        /\ SubSeq(ledger, 1, Len(LedgerBeforeImport)) = LedgerBeforeImport
        /\ \A j \in 1..Len(KeptRows) :
               /\ AddedRow(j).user_id = last.owner
               /\ SourceRow(j).description.tag = "str" =>
                      AddedRow(j).description = Strip(SourceRow(j).description.s)
               /\ AddedRow(j).amount = SourceRow(j).amount.n
               /\ AddedRow(j).date = SourceRow(j).date.s
               /\ AddedRow(j).type = Lower(SourceRow(j).type.s)

\* A file of three rows whose second row fails at the insert: the first and
\* the third are in the ledger, the second is the one recorded error.
C27_Witness ==
    /\ Imported
    /\ Len(last.df.rows) = 3
    /\ last.df.rows[2].amount = NaN
    /\ last.imported_count = 2
    /\ ErrorRows = {2}
    /\ Len(ledger) = Len(LedgerBeforeImport) + 2
    /\ AddedRow(2).description = "Taxi"

C26_ConstructionIdempotent ==
    [][/\ (last'.op = "login" /\ ~legacy /\ users # <<>>) =>
              (users' = users /\ ledger' = ledger /\ nextId' = nextId)
       /\ (last'.op = "login" /\ (legacy \/ users = <<>>)) =>
              (users' = NewDatabase.users /\ ledger' = NewDatabase.ledger)
       /\ (\E i \in 1..Len(ledger) : i > Len(ledger') \/ ledger'[i] # ledger[i]) => legacy
       /\ last'.op = "login" =>
              Cardinality({i \in 1..Len(ledger') :
                              ledger'[i].description = SAMPLE_DATA[1][1]}) = 1]_vars

\* A login was made in a session that had logged in before, on a store
\* with two accounts: the store was constructed at least twice.
C26_Witness ==
    /\ last.op = "login" /\ last.ok
    /\ session.username = "user2"
    /\ session.selected_transaction # 0
    /\ Len(users) = 2 /\ ledger = NewDatabase.ledger

\* The steps of the function that require_auth wraps.
ProtectedOps ==
    {"select", "unselect", "quick_edit", "quick_delete",
     "update", "cancel_edit", "delete", "cancel_delete"}
LoginKeys == {"authenticated", "username", "user_id"}

\* C28: the wrapped function runs only with the authenticated flag set; the
\* flag is set only by a login whose password matches the stored hash of
\* an existing user; a failed login leaves the session unchanged; after
\* logout the flag, username and user_id are absent.
C28_AuthenticatedOnly ==
    [][/\ last'.op \in ProtectedOps => "authenticated" \in session.keys
       /\ ("authenticated" \notin session.keys /\ "authenticated" \in session'.keys) =>
              /\ last'.op = "login" /\ last'.ok
              /\ \E i \in 1..Len(users'), pw \in {"password", "secret", "wrong"} :
                     /\ last'.shown = users'[i].username \o "/" \o pw
                     /\ users'[i].password_hash = HashPw(pw)
                     /\ session'.user_id = i
                     /\ session'.username = users'[i].username
       /\ (last'.op = "login" /\ ~last'.ok) => session' = session
       /\ last'.op = "logout" => session'.keys \cap LoginKeys = {}
       /\ (session'.keys \cap LoginKeys) \in {{}, LoginKeys}
       /\ (session'.keys \cap LoginKeys = {}) => (session'.username = "" /\ session'.user_id = 0)]_vars

\* A login with a wrong password was refused in a session that had logged
\* out of the demo account before: the session has none of the three keys.
C28_Witness ==
    /\ last.op = "login" /\ ~last.ok
    /\ last.shown = "demo/wrong"
    /\ session.keys = {}
    /\ session.edit_mode

C24_AppendOnly ==
    [][last'.op # "reset_database" =>
          /\ Len(ledger') >= Len(ledger)
          /\ \A i \in 1..Len(ledger) : ledger'[i] = ledger[i]]_vars

\* A row added to the seeded ledger is still there, unchanged, after a
\* later lookup of a user.
C24_Witness ==
    /\ last.op = "get_user_by_username"
    /\ Len(ledger) = Len(NewDatabase.ledger) + 1
    /\ ledger[Len(ledger)].description = "Bus eat"
    /\ SubSeq(ledger, 1, Len(NewDatabase.ledger)) = NewDatabase.ledger
====
